---- MODULE Spec2Model ----
(***************************************************************************)
(* Model of src/index.js: class BackgroundRemover.                         *)
(*                                                                         *)
(*   constructor(session, mean, std)   stores the three fields             *)
(*   normalize(image)                  image -> CHW float tensor           *)
(*   mask(image)                       image -> RGBA pipeline with the     *)
(*                                     model's mask as alpha               *)
(*                                                                         *)
(* Numbers.  A JavaScript number (and a Float32Array / Uint8Array slot)    *)
(* is a record [k, n, d]: k = "num" is the rational n/d (d > 0, in lowest  *)
(* terms),                                                                 *)
(* k = "nan" is NaN, k = "inf" is +Infinity (n = 1) or -Infinity (n = -1). *)
(* Rationals are exact: the rounding of a quotient to float32 is not       *)
(* modelled.                                                               *)
(*                                                                         *)
(* Arrays are 1-based sequences: JavaScript index i is position i + 1.     *)
(***************************************************************************)
EXTENDS Integers, Sequences, FiniteSets, TLC

VARIABLES
    this,    \* the instance: [session, mean, std]
    ctor,    \* the constructor's arguments (history, never written)
    handle,  \* handle[c]: the sharp handle the caller passes to call c
    op,      \* op[c]: "mask" or "normalize"
    pc,      \* pc[c]: where call c is suspended
    local,   \* local[f]: the local variables of activation frame f
    log,     \* log[c]: the steps call c has performed (history)
    runs,    \* runs[c]: how often call c invoked session.run (history)
    enc,     \* normalize()'s numeric core, loop by loop
    dec      \* mask()'s numeric core, loop by loop

vars == <<this, ctor, handle, op, pc, local, log, runs, enc, dec>>

pipeVars == <<this, ctor, handle, op, pc, local, log, runs>>

----------------------------------------------------------------------------
(* JavaScript numbers *)

Num(n, d) == [k |-> "num", n |-> n, d |-> d]

RECURSIVE Gcd(_, _)
Gcd(a, b) == IF b = 0 THEN a ELSE Gcd(b, a % b)

\* the rational n/d (d > 0) in lowest terms: one record per value
Rat(n, d) ==
    LET g == Gcd(IF n < 0 THEN -n ELSE n, d)
    IN  Num(n \div g, d \div g)

NaN == [k |-> "nan", n |-> 0, d |-> 1]

PosInf == [k |-> "inf", n |-> 1, d |-> 1]

NegInf == [k |-> "inf", n |-> -1, d |-> 1]

IsNum(a) == a.k = "num"

IsNaN(a) == a.k = "nan"

\* a > b; false when either side is NaN
FGt(a, b) ==
    IF IsNaN(a) \/ IsNaN(b) THEN FALSE
    ELSE IF IsNum(a) /\ IsNum(b) THEN a.n * b.d > b.n * a.d
    ELSE IF IsNum(a) THEN b = NegInf
    ELSE IF IsNum(b) THEN a = PosInf
    ELSE a = PosInf /\ b = NegInf

\* a < b
FLt(a, b) == FGt(b, a)

\* a - b
FSub(a, b) ==
    IF IsNaN(a) \/ IsNaN(b) THEN NaN
    ELSE IF IsNum(a) /\ IsNum(b) THEN Rat(a.n * b.d - b.n * a.d, a.d * b.d)
    ELSE IF IsNum(a) THEN (IF b = PosInf THEN NegInf ELSE PosInf)
    ELSE IF IsNum(b) THEN a
    ELSE IF a = b THEN NaN ELSE a

\* a / b; 0/0 is NaN, x/0 is an infinity
FDiv(a, b) ==
    IF IsNaN(a) \/ IsNaN(b) THEN NaN
    ELSE IF IsNum(a) /\ IsNum(b) THEN
        IF b.n = 0 THEN (IF a.n = 0 THEN NaN ELSE IF a.n > 0 THEN PosInf ELSE NegInf)
        ELSE IF b.n > 0 THEN Rat(a.n * b.d, a.d * b.n)
        ELSE Rat(-(a.n * b.d), a.d * (-b.n))
    ELSE IF IsNum(a) THEN Num(0, 1)
    ELSE IF IsNum(b) THEN (IF (b.n >= 0) = (a = PosInf) THEN PosInf ELSE NegInf)
    ELSE NaN

\* a * b
FMul(a, b) ==
    IF IsNaN(a) \/ IsNaN(b) THEN NaN
    ELSE IF IsNum(a) /\ IsNum(b) THEN Rat(a.n * b.n, a.d * b.d)
    ELSE IF (IsNum(a) /\ a.n = 0) \/ (IsNum(b) /\ b.n = 0) THEN NaN
    ELSE IF (a.n > 0) = (b.n > 0) THEN PosInf ELSE NegInf

\* Math.max(a, b): NaN when either argument is NaN
MathMax(a, b) ==
    IF IsNaN(a) \/ IsNaN(b) THEN NaN ELSE IF FGt(b, a) THEN b ELSE a

\* Math.min(a, b): NaN when either argument is NaN
MathMin(a, b) ==
    IF IsNaN(a) \/ IsNaN(b) THEN NaN ELSE IF FLt(b, a) THEN b ELSE a

\* Math.round(a): floor(a + 0.5); NaN and the infinities are returned as is
MathRound(a) ==
    IF IsNum(a) THEN Num((2 * a.n + a.d) \div (2 * a.d), 1) ELSE a

\* The store of a number into a Uint8Array slot: NaN and the infinities
\* become 0, an integer is taken modulo 256.
ToUint8(a) ==
    IF IsNum(a) THEN (a.n \div a.d) % 256 ELSE 0

----------------------------------------------------------------------------
(* mask(): the numeric core, index.js lines 89-117 *)

RECURSIVE SliceLoop(_, _, _)
\* lines 91-95: sliceData[i] = predData[i] for i < height * width
SliceLoop(predData, n, i) ==
    IF i >= n THEN <<>>
    ELSE <<predData[i + 1]>> \o SliceLoop(predData, n, i + 1)

SliceData(predData, height, width) == SliceLoop(predData, height * width, 0)

RECURSIVE ScanMa(_, _, _)
\* lines 98-101: let ma = -Infinity; if (sliceData[i] > ma) ma = sliceData[i]
ScanMa(arr, i, ma) ==
    IF i >= Len(arr) THEN ma
    ELSE ScanMa(arr, i + 1, IF FGt(arr[i + 1], ma) THEN arr[i + 1] ELSE ma)

RECURSIVE ScanMi(_, _, _)
\* lines 99-102: let mi = Infinity; if (sliceData[i] < mi) mi = sliceData[i]
ScanMi(arr, i, mi) ==
    IF i >= Len(arr) THEN mi
    ELSE ScanMi(arr, i + 1, IF FLt(arr[i + 1], mi) THEN arr[i + 1] ELSE mi)

\* lines 106-110: normalizedData[i] = (sliceData[i] - mi) / range
Rescale(sliceData, mi, range) ==
    [i \in 1..Len(sliceData) |-> FDiv(FSub(sliceData[i], mi), range)]

\* ByteOf with Math.floor in place of Math.round
ByteOfFloor(v) ==
    LET clipped == MathMax(Num(0, 1), MathMin(Num(1, 1), v))
        scaled == FMul(clipped, Num(255, 1))
    IN  ToUint8(IF IsNum(scaled) THEN Num(scaled.n \div scaled.d, 1) ELSE scaled)

\* lines 115-116: clipped = Math.max(0, Math.min(1, v));
\* uint8Data[i] = Math.round(clipped * 255)
ByteOf(v) ==
    LET clipped == MathMax(Num(0, 1), MathMin(Num(1, 1), v))
    IN  ToUint8(MathRound(FMul(clipped, Num(255, 1))))

\* lines 113-117
ClipRound(normalizedData) ==
    [i \in 1..Len(normalizedData) |-> ByteOf(normalizedData[i])]

\* lines 89-117 as one function of the first output tensor
DecodeMask(predData, height, width) ==
    LET sliceData == SliceData(predData, height, width)
        ma == ScanMa(sliceData, 0, NegInf)
        mi == ScanMi(sliceData, 0, PosInf)
        range == FSub(ma, mi)
    IN  ClipRound(Rescale(sliceData, mi, range))

----------------------------------------------------------------------------
(* The decoder on its own: the loops of lines 89-117, one action per loop, *)
(* applied to every first output tensor within the bounds.                 *)

MaxOutPix == 4

\* values of the first plane of the model's output
PredVals == {Num(-1, 2), Num(0, 1), Num(1, 2), Num(1, 1)}

\* values of a second plane, outside the range of the first
ExtraVals == {Num(-3, 1), Num(3, 1)}

OutShapes == {s \in (1..MaxOutPix) \X (1..MaxOutPix) : s[1] * s[2] <= MaxOutPix}

\* results[outputName]: dims [index, channel, height, width] and the flat data
DecInputs ==
    UNION { UNION {
        {[dims |-> <<1, 1, s[1], s[2]>>, data |-> plane]}
        \cup {[dims |-> <<1, 2, s[1], s[2]>>,
               data |-> plane \o [i \in 1..(s[1] * s[2]) |-> e]] : e \in ExtraVals}
        : plane \in [1..(s[1] * s[2]) -> PredVals] } : s \in OutShapes }

DecIdle ==
    [pc |-> "idle", dims |-> <<>>, predData |-> <<>>, sliceData |-> <<>>,
     ma |-> NegInf, mi |-> PosInf, range |-> NaN,
     normalizedData |-> <<>>, uint8Data |-> <<>>]

EncIdle == [pc |-> "idle"]

NoCalls == <<>>

DecInit ==
    /\ \E r \in DecInputs :
           dec = [DecIdle EXCEPT !.pc = "slice", !.dims = r.dims, !.predData = r.data]
    /\ enc = EncIdle
    /\ this = NoCalls /\ ctor = NoCalls /\ handle = NoCalls /\ op = NoCalls
    /\ pc = NoCalls /\ local = NoCalls /\ log = NoCalls /\ runs = NoCalls

\* lines 90-95
DecSlice ==
    /\ dec.pc = "slice"
    /\ dec' = [dec EXCEPT !.pc = "scan",
                          !.sliceData = SliceData(dec.predData, dec.dims[3], dec.dims[4])]
    /\ UNCHANGED <<pipeVars, enc>>

\* lines 97-103
DecScan ==
    /\ dec.pc = "scan"
    /\ dec' = [dec EXCEPT !.pc = "rescale",
                          !.ma = ScanMa(dec.sliceData, 0, NegInf),
                          !.mi = ScanMi(dec.sliceData, 0, PosInf)]
    /\ UNCHANGED <<pipeVars, enc>>

\* lines 105-110
DecRescale ==
    /\ dec.pc = "rescale"
    /\ LET range == FSub(dec.ma, dec.mi)
       IN  dec' = [dec EXCEPT !.pc = "clip", !.range = range,
                              !.normalizedData = Rescale(dec.sliceData, dec.mi, range)]
    /\ UNCHANGED <<pipeVars, enc>>

\* lines 112-117
DecClip ==
    /\ dec.pc = "clip"
    /\ dec' = [dec EXCEPT !.pc = "done", !.uint8Data = ClipRound(dec.normalizedData)]
    /\ UNCHANGED <<pipeVars, enc>>

DecNext == DecSlice \/ DecScan \/ DecRescale \/ DecClip

DecSpec == DecInit /\ [][DecNext]_vars

----------------------------------------------------------------------------
(* normalize(): the numeric core, index.js lines 35-64 *)

\* arr[i] of a typed array: an index out of range reads undefined, which
\* arithmetic turns into NaN
ArrGet(arr, i) == IF (i + 1) \in DOMAIN arr THEN arr[i + 1] ELSE NaN

\* arr[i] = v of a typed array: an index out of range writes nothing
ArrSet(arr, i, v) == IF (i + 1) \in DOMAIN arr THEN [arr EXCEPT ![i + 1] = v] ELSE arr

\* new Float32Array(n): n zeros
ZeroArray(n) == [i \in 1..n |-> Num(0, 1)]

\* line 39: floatArray[i] = data[i]
ToFloats(data) == [i \in 1..Len(data) |-> Num(data[i], 1)]

RECURSIVE ScanMaxVal(_, _, _)
\* lines 37-41: let maxVal = 0; if (floatArray[i] > maxVal) maxVal = floatArray[i]
ScanMaxVal(floatArray, i, maxVal) ==
    IF i >= Len(floatArray) THEN maxVal
    ELSE ScanMaxVal(floatArray, i + 1,
                    IF FGt(floatArray[i + 1], maxVal) THEN floatArray[i + 1] ELSE maxVal)

\* line 43: Math.max(maxVal, 1e-6)
Divisor(maxVal) == MathMax(maxVal, Num(1, 1000000))

\* lines 44-46: floatArray[i] /= divisor
ScaleAll(floatArray, divisor) ==
    [i \in 1..Len(floatArray) |-> FDiv(floatArray[i], divisor)]

\* PixelIdx with a fixed stride of 3 in place of the buffer's channel count
PixelIdxRGB(c, y, x, width, channels) == y * width * 3 + x * 3 + c

\* line 54: the offset of channel c of pixel (x, y) in the HWC buffer
PixelIdx(c, y, x, width, channels) == y * width * channels + x * channels + c

\* line 56: the offset of (c, y, x) in the CHW tensor
TensorIdx(c, y, x, height, width) == c * (height * width) + y * width + x

\* line 55: (floatArray[pixelIdx] - this.mean[c]) / this.std[c]
Affine(floatArray, pixelIdx, c, mean, std) ==
    FDiv(FSub(ArrGet(floatArray, pixelIdx), mean[c + 1]), std[c + 1])

\* lines 54-59: one iteration of the innermost loop
WriteCHW(normalized, floatArray, c, y, x, info, mean, std) ==
    ArrSet(normalized,
           TensorIdx(c, y, x, info.height, info.width),
           Affine(floatArray, PixelIdx(c, y, x, info.width, info.channels), c, mean, std))

RECURSIVE ChwLoop(_, _, _, _, _, _)
\* lines 50-62: iteration k of the loop nest is c = k div (height * width),
\* y = (k mod (height * width)) div width, x = k mod width
ChwLoop(normalized, floatArray, k, info, mean, std) ==
    IF k >= 3 * info.height * info.width THEN normalized
    ELSE ChwLoop(WriteCHW(normalized, floatArray,
                          k \div (info.height * info.width),
                          (k % (info.height * info.width)) \div info.width,
                          k % info.width,
                          info, mean, std),
                 floatArray, k + 1, info, mean, std)

\* line 64: new ort.Tensor('float32', normalized, [1, 3, height, width])
Tensor(normalized, info) == [data |-> normalized, dims |-> <<1, 3, info.height, info.width>>]

\* lines 35-64 as one function of the raw buffer toBuffer() resolved with
NormalizeTensor(data, info, mean, std) ==
    LET floatArray == ToFloats(data)
        divisor == Divisor(ScanMaxVal(floatArray, 0, Num(0, 1)))
        scaled == ScaleAll(floatArray, divisor)
    IN  Tensor(ChwLoop(ZeroArray(3 * info.height * info.width), scaled, 0, info, mean, std),
               info)

----------------------------------------------------------------------------
(* The encoder on its own: lines 35-64, one action per loop (the CHW loop  *)
(* one iteration per action), applied to every raw buffer within the       *)
(* bounds.                                                                 *)

MaxEncPix == 4

\* pixels of a 3-channel and of a 4-channel raw buffer
Palette(channels) ==
    IF channels = 3 THEN {<<0, 0, 0>>, <<10, 20, 30>>, <<255, 128, 64>>}
    ELSE {<<0, 0, 0, 0>>, <<10, 20, 30, 255>>, <<200, 100, 50, 40>>}

\* the interleaved buffer of a sequence of pixels
Interleave(pixels, channels) ==
    [i \in 1..(Len(pixels) * channels) |->
        pixels[((i - 1) \div channels) + 1][((i - 1) % channels) + 1]]

EncShapes == {s \in (1..MaxEncPix) \X (1..MaxEncPix) : s[1] * s[2] <= MaxEncPix}

\* { data, info } as toBuffer({ resolveWithObject: true }) resolves
EncInputs ==
    UNION { UNION {
        {[data |-> Interleave(px, ch),
          info |-> [width |-> s[2], height |-> s[1], channels |-> ch]]
            : px \in [1..(s[1] * s[2]) -> Palette(ch)]}
        : ch \in {3, 4} } : s \in EncShapes }

\* the mean and std the instance was constructed with
Norms ==
    {[mean |-> <<Num(0, 1), Num(0, 1), Num(0, 1)>>,
      std |-> <<Num(1, 1), Num(1, 1), Num(1, 1)>>],
     [mean |-> <<Num(1, 2), Num(1, 4), Num(0, 1)>>,
      std |-> <<Num(1, 2), Num(1, 4), Num(2, 1)>>]}

EncInit ==
    /\ \E r \in EncInputs, nm \in Norms :
           enc = [pc |-> "scan", data |-> r.data, info |-> r.info,
                  mean |-> nm.mean, std |-> nm.std,
                  floatArray |-> <<>>, maxVal |-> Num(0, 1),
                  normalized |-> <<>>, writes |-> <<>>,
                  c |-> 0, y |-> 0, x |-> 0, tensor |-> <<>>]
    /\ dec = DecIdle
    /\ this = NoCalls /\ ctor = NoCalls /\ handle = NoCalls /\ op = NoCalls
    /\ pc = NoCalls /\ local = NoCalls /\ log = NoCalls /\ runs = NoCalls

\* lines 36-41
EncScan ==
    /\ enc.pc = "scan"
    /\ LET floatArray == ToFloats(enc.data)
       IN  enc' = [enc EXCEPT !.pc = "scale", !.floatArray = floatArray,
                              !.maxVal = ScanMaxVal(floatArray, 0, Num(0, 1))]
    /\ UNCHANGED <<pipeVars, dec>>

\* lines 43-48
EncScale ==
    /\ enc.pc = "scale"
    /\ enc' = [enc EXCEPT !.pc = "chw",
                          !.floatArray = ScaleAll(enc.floatArray, Divisor(enc.maxVal)),
                          !.normalized = ZeroArray(3 * enc.info.height * enc.info.width),
                          !.writes = [i \in 1..(3 * enc.info.height * enc.info.width) |-> 0]]
    /\ UNCHANGED <<pipeVars, dec>>

\* lines 50-62: one iteration, then the loop counters step as the three
\* nested for statements step them
EncWrite ==
    /\ enc.pc = "chw"
    /\ enc.c < 3
    /\ LET index == TensorIdx(enc.c, enc.y, enc.x, enc.info.height, enc.info.width)
           lastX == enc.x + 1 >= enc.info.width
           lastY == enc.y + 1 >= enc.info.height
       IN  enc' = [enc EXCEPT
               !.normalized = WriteCHW(enc.normalized, enc.floatArray, enc.c, enc.y, enc.x,
                                       enc.info, enc.mean, enc.std),
               !.writes = IF (index + 1) \in DOMAIN enc.writes
                          THEN [enc.writes EXCEPT ![index + 1] = @ + 1] ELSE enc.writes,
               !.x = IF lastX THEN 0 ELSE enc.x + 1,
               !.y = IF lastX THEN (IF lastY THEN 0 ELSE enc.y + 1) ELSE enc.y,
               !.c = IF lastX /\ lastY THEN enc.c + 1 ELSE enc.c]
    /\ UNCHANGED <<pipeVars, dec>>

\* line 64
EncReturn ==
    /\ enc.pc = "chw"
    /\ enc.c >= 3
    /\ enc' = [enc EXCEPT !.pc = "done", !.tensor = Tensor(enc.normalized, enc.info)]
    /\ UNCHANGED <<pipeVars, dec>>

EncNext == EncScan \/ EncScale \/ EncWrite \/ EncReturn

EncSpec == EncInit /\ [][EncNext]_vars

----------------------------------------------------------------------------
(* The collaborators: sharp handles and the inference session *)

\* the value of a destructured array element that is not there
Undefined == 0

\* sharp(input): a handle with no operation set.  img is the decoded input:
\* [width, height, channels, shade], every pixel of it <<shade, shade,
\* shade>> (and an alpha byte of 255), so that a resize of it is the same
\* colour at the new size whatever the kernel.
Fresh(img) ==
    [img |-> img, resize |-> <<>>, format |-> "input", ensureAlpha |-> FALSE,
     colourspace |-> "srgb", join |-> <<>>]

\* image.clone(): a new handle with a copy of the options
SharpClone(h) == h

\* image.resize(width, height, { fit: 'fill' }): sets the option on the
\* handle it is called on and returns that handle
SharpResize(h, width, height) == [h EXCEPT !.resize = <<width, height>>]

\* image.raw()
SharpRaw(h) == [h EXCEPT !.format = "raw"]

\* the size toBuffer() produces: the resize box; an undefined side of the
\* box keeps the input's under fit 'fill'
SharpWidth(h) ==
    IF h.resize = <<>> \/ h.resize[1] = Undefined THEN h.img.width ELSE h.resize[1]

SharpHeight(h) ==
    IF h.resize = <<>> \/ h.resize[2] = Undefined THEN h.img.height ELSE h.resize[2]

\* info of toBuffer({ resolveWithObject: true })
SharpInfo(h) ==
    [width |-> SharpWidth(h), height |-> SharpHeight(h), channels |-> h.img.channels]

\* data of toBuffer({ resolveWithObject: true }): raw interleaved bytes
SharpData(h) ==
    LET s == h.img.shade
        pixel == IF h.img.channels = 3 THEN <<s, s, s>> ELSE <<s, s, s, 255>>
    IN  Interleave([p \in 1..(SharpWidth(h) * SharpHeight(h)) |-> pixel], h.img.channels)

\* shape[i - 1] of the destructuring in lines 25-27
ShapeAt(shape, i) == IF i \in DOMAIN shape THEN shape[i] ELSE Undefined

\* lines 25-33 up to the call of toBuffer: the handle normalize() was given,
\* with the resize box and the raw format set on it
NormalizeEntry(h, session) ==
    LET shape == session.inputMetadata[1].shape
        inputHeight == ShapeAt(shape, 3)
        inputWidth == ShapeAt(shape, 4)
    IN  SharpRaw(SharpResize(h, inputWidth, inputHeight))

\* session.run(feeds): a fixed function of the input tensor, of the
\* session's declared output dims; every output carries dims and flat data
Infer(session, feeds) ==
    LET n == session.outDims[2] * session.outDims[3] * session.outDims[4]
        t == feeds.tensor.data[1]
    IN  [dims |-> session.outDims,
         data |-> [i \in 1..n |->
                      IF session.kind = "flat" THEN t ELSE FMul(t, Num(i, 1))]]

\* AlphaTarget with the model output's own width and height
AlphaTargetNative(l) == <<l.results[1].dims[4], l.results[1].dims[3]>>

\* lines 121, 129: the size the mask is resized to and joined at
AlphaTarget(l) == <<l.originalWidth, l.originalHeight>>

\* lines 120-123: the raw single-channel buffer the alpha pipeline resolves
\* with: the mask bytes resampled from width x height to the target box.
\* The resampled bytes are the resize kernel's; the buffer is named by what
\* it was resampled from.
AlphaBuffer(uint8Data, width, height, target) ==
    [width |-> target[1], height |-> target[2], channels |-> 1,
     of |-> [data |-> uint8Data, width |-> width, height |-> height]]

\* lines 125-130: image.clone().ensureAlpha().toColourspace('rgb')
\*                     .joinChannel(alpha, { raw: ... }).png()
Compose(h, alpha, target) ==
    [SharpClone(h) EXCEPT
        !.ensureAlpha = TRUE,
        !.colourspace = "rgb",
        !.join = <<[buffer |-> alpha,
                    raw |-> [width |-> target[1], height |-> target[2], channels |-> 1]]>>,
        !.format = "png"]

\* The channels of the image a handle produces: the input's, then each
\* joined channel, then an opaque alpha if there is no alpha by then (sharp
\* joins channels before it ensures alpha).
OutChannels(h) ==
    LET base == IF h.img.channels = 4 THEN <<"R", "G", "B", "A">> ELSE <<"R", "G", "B">>
        joined == base \o [i \in 1..Len(h.join) |-> "mask"]
    IN  IF h.ensureAlpha /\ Len(joined) = 3 THEN joined \o <<"opaque">> ELSE joined

Max(a, b) == IF a >= b THEN a ELSE b

\* The size of the image a handle produces: joined channels of another size
\* enlarge the image to the larger of the two
OutWidth(h) ==
    IF h.join = <<>> THEN SharpWidth(h) ELSE Max(SharpWidth(h), h.join[1].raw.width)

OutHeight(h) ==
    IF h.join = <<>> THEN SharpHeight(h) ELSE Max(SharpHeight(h), h.join[1].raw.height)

----------------------------------------------------------------------------
(* mask() and normalize() as asynchronous calls.  A call runs from one     *)
(* await to the next in one step; what it awaits either resolves or        *)
(* rejects.                                                                *)

\* Frame with one frame for all calls, as if the locals were fields
FrameShared(c) == 1

\* the activation frame that holds the local variables of call c: every
\* invocation of an async method has its own (const / let, lines 25-30,
\* 75-120)
Frame(c) == c

\* OnRejection with a failed session.run called again
OnRejectionRetry(step) == IF step = "run" THEN "normalized" ELSE "rejected"

\* where a call goes when the promise awaited at step rejects: no await of
\* lines 30, 78, 83, 86, 120 is inside a try, so the call rejects
OnRejection(step) == "rejected"

NewFrame ==
    [originalWidth |-> Undefined, originalHeight |-> Undefined, image |-> <<>>,
     request |-> <<>>, inputTensor |-> <<>>, results |-> <<>>, uint8Data |-> <<>>,
     ret |-> <<>>, err |-> <<>>]

Calls == DOMAIN pc

\* the handle normalize() works on: the caller's when the caller calls
\* normalize(), the clone of line 83 when mask() does
NormalizeImage(c) == IF op[c] = "normalize" THEN handle[c] ELSE local[Frame(c)].image[1]

\* lines 75-83: image.metadata() resolves; the clone is made and normalize()
\* runs on it up to its await of toBuffer
MaskMetadata(c) ==
    /\ op[c] = "mask" /\ pc[c] = "called"
    /\ local' = [local EXCEPT ![Frame(c)] =
                    [@ EXCEPT !.originalWidth = handle[c].img.width,
                              !.originalHeight = handle[c].img.height,
                              !.image = <<NormalizeEntry(SharpClone(handle[c]), this.session)>>]]
    /\ pc' = [pc EXCEPT ![c] = "toBuffer"]
    /\ log' = [log EXCEPT ![c] = @ \o <<"metadata", "clone", "resize", "raw">>]
    /\ UNCHANGED <<this, ctor, handle, op, runs, enc, dec>>

\* line 78 rejects
MaskMetadataRejects(c) ==
    /\ op[c] = "mask" /\ pc[c] = "called"
    /\ local' = [local EXCEPT ![Frame(c)].err = <<"metadata">>]
    /\ pc' = [pc EXCEPT ![c] = OnRejection("metadata")]
    /\ log' = [log EXCEPT ![c] = @ \o <<"metadata rejected">>]
    /\ UNCHANGED <<this, ctor, handle, op, runs, enc, dec>>

\* lines 25-33: the caller calls normalize(image)
NormalizeCall(c) ==
    /\ op[c] = "normalize" /\ pc[c] = "called"
    /\ handle' = [handle EXCEPT ![c] = NormalizeEntry(handle[c], this.session)]
    /\ pc' = [pc EXCEPT ![c] = "toBuffer"]
    /\ log' = [log EXCEPT ![c] = @ \o <<"resize", "raw">>]
    /\ UNCHANGED <<this, ctor, op, local, runs, enc, dec>>

\* lines 30-64: toBuffer resolves and normalize() returns the tensor
NormalizeBuffer(c) ==
    /\ pc[c] = "toBuffer"
    /\ LET image == NormalizeImage(c)
           tensor == NormalizeTensor(SharpData(image), SharpInfo(image),
                                     this.mean, this.std)
       IN  IF op[c] = "normalize"
           THEN /\ local' = [local EXCEPT ![Frame(c)].ret = <<tensor>>]
                /\ pc' = [pc EXCEPT ![c] = "done"]
           ELSE /\ local' = [local EXCEPT ![Frame(c)].inputTensor = <<tensor>>]
                /\ pc' = [pc EXCEPT ![c] = "normalized"]
    /\ log' = [log EXCEPT ![c] = @ \o <<"toBuffer", "encode">>]
    /\ UNCHANGED <<this, ctor, handle, op, runs, enc, dec>>

\* line 30 rejects
NormalizeBufferRejects(c) ==
    /\ pc[c] = "toBuffer"
    /\ local' = [local EXCEPT ![Frame(c)].err = <<"toBuffer">>]
    /\ pc' = [pc EXCEPT ![c] = OnRejection("toBuffer")]
    /\ log' = [log EXCEPT ![c] = @ \o <<"toBuffer rejected">>]
    /\ UNCHANGED <<this, ctor, handle, op, runs, enc, dec>>

\* lines 83-86: the await of normalize() resumes and session.run is called
MaskRun(c) ==
    /\ op[c] = "mask" /\ pc[c] = "normalized"
    /\ local' = [local EXCEPT ![Frame(c)].request =
                    <<[name |-> this.session.inputNames[1],
                       tensor |-> local[Frame(c)].inputTensor[1]]>>]
    /\ runs' = [runs EXCEPT ![c] = @ + 1]
    /\ pc' = [pc EXCEPT ![c] = "run"]
    /\ log' = [log EXCEPT ![c] = @ \o <<"run">>]
    /\ UNCHANGED <<this, ctor, handle, op, enc, dec>>

\* lines 86-123: session.run resolves; the mask bytes are computed and the
\* alpha pipeline is started
MaskResults(c) ==
    /\ op[c] = "mask" /\ pc[c] = "run"
    /\ LET results == Infer(this.session, local[Frame(c)].request[1])
       IN  local' = [local EXCEPT ![Frame(c)] =
                        [@ EXCEPT !.results = <<results>>,
                                  !.uint8Data = <<DecodeMask(results.data, results.dims[3],
                                                             results.dims[4])>>]]
    /\ pc' = [pc EXCEPT ![c] = "alpha"]
    /\ log' = [log EXCEPT ![c] = @ \o <<"results", "decode", "alpha resize">>]
    /\ UNCHANGED <<this, ctor, handle, op, runs, enc, dec>>

\* line 86 rejects
MaskRunRejects(c) ==
    /\ op[c] = "mask" /\ pc[c] = "run"
    /\ local' = [local EXCEPT ![Frame(c)].err = <<"run">>]
    /\ pc' = [pc EXCEPT ![c] = OnRejection("run")]
    /\ log' = [log EXCEPT ![c] = @ \o <<"run rejected">>]
    /\ UNCHANGED <<this, ctor, handle, op, runs, enc, dec>>

\* lines 120-130: the alpha buffer resolves and the composed pipeline is
\* returned
MaskAlpha(c) ==
    /\ op[c] = "mask" /\ pc[c] = "alpha"
    /\ LET l == local[Frame(c)]
           alpha == AlphaBuffer(l.uint8Data[1], l.results[1].dims[4], l.results[1].dims[3],
                                AlphaTarget(l))
       IN  local' = [local EXCEPT ![Frame(c)].ret =
                        <<Compose(handle[c], alpha, AlphaTarget(l))>>]
    /\ pc' = [pc EXCEPT ![c] = "done"]
    /\ log' = [log EXCEPT ![c] = @ \o <<"alpha buffer", "clone", "compose">>]
    /\ UNCHANGED <<this, ctor, handle, op, runs, enc, dec>>

\* line 120 rejects
MaskAlphaRejects(c) ==
    /\ op[c] = "mask" /\ pc[c] = "alpha"
    /\ local' = [local EXCEPT ![Frame(c)].err = <<"alpha buffer">>]
    /\ pc' = [pc EXCEPT ![c] = OnRejection("alpha buffer")]
    /\ log' = [log EXCEPT ![c] = @ \o <<"alpha buffer rejected">>]
    /\ UNCHANGED <<this, ctor, handle, op, runs, enc, dec>>

Next ==
    \/ \E c \in Calls : MaskMetadata(c)
    \/ \E c \in Calls : MaskMetadataRejects(c)
    \/ \E c \in Calls : NormalizeCall(c)
    \/ \E c \in Calls : NormalizeBuffer(c)
    \/ \E c \in Calls : NormalizeBufferRejects(c)
    \/ \E c \in Calls : MaskRun(c)
    \/ \E c \in Calls : MaskResults(c)
    \/ \E c \in Calls : MaskRunRejects(c)
    \/ \E c \in Calls : MaskAlpha(c)
    \/ \E c \in Calls : MaskAlphaRejects(c)

----------------------------------------------------------------------------
(* One call at a time, on every session and image within the bounds *)

MaxDim == 2

Dims == 1..MaxDim

\* the declared shape of the first input: [N, 3, H, W], and shapes the
\* README rules out: a channel count other than 3, three dimensions
InputShapes ==
    {<<1, 3, h, w>> : h \in Dims, w \in Dims} \cup {<<1, 1, 1, 2>>, <<1, 4, 2, 1>>, <<3, 2, 1>>}

Sessions ==
    {[inputMetadata |-> <<[shape |-> s]>>, inputNames |-> <<"input">>,
      outputNames |-> <<"output">>, outDims |-> <<1, 1, h, w>>, kind |-> k]
        : s \in InputShapes, h \in Dims, w \in Dims, k \in {"flat", "ramp"}}

Images ==
    {[width |-> w, height |-> h, channels |-> ch, shade |-> s]
        : w \in Dims, h \in Dims, ch \in {3, 4}, s \in {0, 100}}

\* new BackgroundRemover(session, mean, std), lines 13-17
Construct(session, mean, std) == [session |-> session, mean |-> mean, std |-> std]

PipeInit(calls, sessions, images, ops) ==
    /\ \E s \in sessions, nm \in Norms :
           /\ this = Construct(s, nm.mean, nm.std)
           /\ ctor = [session |-> s, mean |-> nm.mean, std |-> nm.std]
    /\ handle \in [calls -> {Fresh(i) : i \in images}]
    /\ op \in [calls -> ops]
    /\ pc = [c \in calls |-> "called"]
    /\ local = [c \in calls |-> NewFrame]
    /\ log = [c \in calls |-> <<>>]
    /\ runs = [c \in calls |-> 0]
    /\ enc = EncIdle
    /\ dec = DecIdle

Init == PipeInit({1}, Sessions, Images, {"mask", "normalize"})

Spec == Init /\ [][Next]_vars

----------------------------------------------------------------------------
(* Two mask() calls in flight on one instance *)

ConcSessions ==
    {[inputMetadata |-> <<[shape |-> <<1, 3, 1, 2>>]>>, inputNames |-> <<"input">>,
      outputNames |-> <<"output">>, outDims |-> <<1, 1, 2, 1>>, kind |-> k]
        : k \in {"flat", "ramp"}}

ConcImages ==
    {[width |-> 1, height |-> 1, channels |-> 3, shade |-> 0],
     [width |-> 2, height |-> 1, channels |-> 3, shade |-> 100],
     [width |-> 1, height |-> 2, channels |-> 4, shade |-> 100]}

ConcInit == PipeInit({1, 2}, ConcSessions, ConcImages, {"mask"})

ConcNext ==
    \/ \E c \in Calls : MaskMetadata(c)
    \/ \E c \in Calls : MaskMetadataRejects(c)
    \/ \E c \in Calls : NormalizeBuffer(c)
    \/ \E c \in Calls : NormalizeBufferRejects(c)
    \/ \E c \in Calls : MaskRun(c)
    \/ \E c \in Calls : MaskResults(c)
    \/ \E c \in Calls : MaskRunRejects(c)
    \/ \E c \in Calls : MaskAlpha(c)
    \/ \E c \in Calls : MaskAlphaRejects(c)

ConcSpec == ConcInit /\ [][ConcNext]_vars

----------------------------------------------------------------------------
(* Properties *)

\* the first height * width values of the first output, read from the input
DecPlane == [i \in 1..(dec.dims[3] * dec.dims[4]) |-> dec.predData[i]]

\* a <= b for two rationals
RatLe(a, b) == a.n * b.d <= b.n * a.d

DecLo == CHOOSE v \in {DecPlane[i] : i \in DOMAIN DecPlane} :
             \A i \in DOMAIN DecPlane : RatLe(v, DecPlane[i])

DecHi == CHOOSE v \in {DecPlane[i] : i \in DOMAIN DecPlane} :
             \A i \in DOMAIN DecPlane : RatLe(DecPlane[i], v)

\* (v - lo) / (hi - lo) as numerator and denominator, for hi > lo
RatioNum(v, lo, hi) == (v.n * lo.d - lo.n * v.d) * (hi.d * lo.d)

RatioDen(v, lo, hi) == (v.d * lo.d) * (hi.n * lo.d - lo.n * hi.d)

\* C1: when every value of the first plane of the model's output is the same
\* (max = min), every byte of the native-resolution mask is the flat
\* mid-gray 128, no NaN is computed or stored for any pixel, and every byte
\* is in 0..255.
C1_DegenerateFlat ==
    (dec.pc = "done" /\ RatLe(DecHi, DecLo)) =>
        /\ \A i \in DOMAIN dec.uint8Data : dec.uint8Data[i] = 128
        /\ \A i \in DOMAIN dec.normalizedData : ~IsNaN(dec.normalizedData[i])
        /\ \A i \in DOMAIN dec.uint8Data : dec.uint8Data[i] \in 0..255

\* C8: for a model output with max > min over its first height * width
\* values, mask byte i is round(255 * clamp01((v[i] - min) / (max - min))):
\* an integer of 0..255 (the nearest to 255 * ratio, a half rounding up), 0
\* where v[i] is the minimum and 255 where it is the maximum; the output
\* [0, 0.5, 0.5, 1] of shape [1,1,2,2] gives [0, 128, 128, 255].
C8_MaskByteLaw ==
    (dec.pc = "done" /\ ~RatLe(DecHi, DecLo)) =>
        /\ DOMAIN dec.uint8Data = DOMAIN DecPlane
        /\ \A i \in DOMAIN DecPlane :
               LET b == dec.uint8Data[i]
                   N == RatioNum(DecPlane[i], DecLo, DecHi)
                   D == RatioDen(DecPlane[i], DecLo, DecHi)
               IN  /\ b \in 0..255
                   /\ 0 <= N /\ N <= D
                   /\ (2 * b - 1) * D <= 510 * N
                   /\ 510 * N < (2 * b + 1) * D
                   /\ (DecPlane[i] = DecLo => b = 0)
                   /\ (DecPlane[i] = DecHi => b = 255)
        /\ (/\ dec.dims = <<1, 1, 2, 2>>
            /\ dec.predData = <<Num(0, 1), Num(1, 2), Num(1, 2), Num(1, 1)>>)
               => dec.uint8Data = <<0, 128, 128, 255>>

\* C8's case: the end-to-end scenario's output has been decoded
C8_Witness ==
    /\ dec.pc = "done"
    /\ dec.dims = <<1, 1, 2, 2>>
    /\ dec.predData = <<Num(0, 1), Num(1, 2), Num(1, 2), Num(1, 1)>>
    /\ dec.uint8Data = <<0, 128, 128, 255>>


\* a = b for two rationals
RatEq(a, b) == IsNum(a) /\ IsNum(b) /\ a.n * b.d = b.n * a.d

\* the largest byte of the whole interleaved buffer
EncMaxByte == CHOOSE m \in {enc.data[i] : i \in DOMAIN enc.data} :
                  \A i \in DOMAIN enc.data : enc.data[i] <= m

\* byte / max(largest byte, 1e-6)
EncScaled(byte) == IF EncMaxByte >= 1 THEN Num(byte, EncMaxByte) ELSE Num(byte * 1000000, 1)

\* (scaled - mean) / std for a mean m and a std s > 0
EncExpected(byte, m, s) ==
    LET v == EncScaled(byte)
    IN  Num((v.n * m.d - m.n * v.d) * s.d, v.d * m.d * s.n)

\* C7: the tensor has 3 * H * W elements and shape [1, 3, H, W]; the element
\* at offset c*H*W + y*W + x equals (scaled[y][x][c] - mean[c]) / std[c],
\* scaled being channel c of pixel (x, y) of the interleaved buffer, read at
\* a stride of the buffer's channel count, over the global divisor; no
\* offset is ever written twice and when normalize returns every offset has
\* been written exactly once.
C7_ElementLaw ==
    LET H == enc.info.height
        W == enc.info.width
        ch == enc.info.channels
    IN  /\ enc.pc \in {"chw", "done"} =>
               \A i \in DOMAIN enc.writes : enc.writes[i] <= 1
        /\ enc.pc = "done" =>
               /\ enc.tensor.dims = <<1, 3, H, W>>
               /\ DOMAIN enc.tensor.data = 1..(3 * H * W)
               /\ \A i \in 1..(3 * H * W) : enc.writes[i] = 1
               /\ \A c \in 0..2, y \in 0..(H - 1), x \in 0..(W - 1) :
                      RatEq(enc.tensor.data[c * H * W + y * W + x + 1],
                            EncExpected(enc.data[(y * W + x) * ch + c + 1],
                                        enc.mean[c + 1], enc.std[c + 1]))

\* C7's case: a 2x2 image with an alpha channel and distinct pixels has been
\* encoded under a mean and std that differ per channel
C7_Witness ==
    /\ enc.pc = "done"
    /\ enc.info = [width |-> 2, height |-> 2, channels |-> 4]
    /\ enc.data[1] # enc.data[5]
    /\ enc.mean[1] # enc.mean[2]

\* C4: under the identity normalization (mean 0, std 1), for a buffer of 3
\* or of 4 channels, every tensor value lies in [0, 1]; when every byte of
\* the image is 0 every tensor value is 0, and otherwise the largest tensor
\* value is exactly 1.
C4_ScalingLaw ==
    (/\ enc.pc = "done"
     /\ \A c \in 1..3 : enc.mean[c] = Num(0, 1) /\ enc.std[c] = Num(1, 1)) =>
        LET t == enc.tensor.data
        IN  /\ \A i \in DOMAIN t : IsNum(t[i]) /\ 0 <= t[i].n /\ t[i].n <= t[i].d
            /\ IF \A i \in DOMAIN enc.data : enc.data[i] = 0
               THEN \A i \in DOMAIN t : t[i].n = 0
               ELSE \E i \in DOMAIN t : t[i].n = t[i].d


\* the declared shape of the first input is not [N, 3, H, W]
BadMetadata ==
    LET shape == this.session.inputMetadata[1].shape
    IN  Len(shape) # 4 \/ shape[2] # 3

\* C2: when the declared input shape is not 4-dimensional or its channel
\* entry is not 3, mask() and normalize() fail with an error before any
\* image work (metadata query, clone, resize, raw decode) and before
\* session.run: a call that has taken a step is rejected, has done no work,
\* and holds no tensor and no image.
C2_MetadataFailFast ==
    BadMetadata =>
        \A c \in Calls :
            /\ pc[c] \in {"called", "rejected"}
            /\ log[c] = <<>>
            /\ runs[c] = 0
            /\ local[c].inputTensor = <<>>
            /\ local[c].ret = <<>>

\* C3: the image mask() returns has the width and height of the caller's
\* image, which are the values mask() read before any resampling, whatever
\* the model's input size and output size.
C3_OutputSize ==
    \A c \in Calls :
        (op[c] = "mask" /\ pc[c] = "done") =>
            /\ Len(local[c].ret) = 1
            /\ local[c].originalWidth = handle[c].img.width
            /\ local[c].originalHeight = handle[c].img.height
            /\ OutWidth(local[c].ret[1]) = handle[c].img.width
            /\ OutHeight(local[c].ret[1]) = handle[c].img.height

\* C3's case: mask() has returned for an image whose width and height differ
\* from the model's input size and from its output size
C3_Witness ==
    \E c \in Calls :
        /\ op[c] = "mask" /\ pc[c] = "done"
        /\ ~BadMetadata
        /\ handle[c].img.width # this.session.inputMetadata[1].shape[4]
        /\ handle[c].img.height # this.session.inputMetadata[1].shape[3]
        /\ handle[c].img.width # local[c].results[1].dims[4]
        /\ handle[c].img.height # local[c].results[1].dims[3]

\* C5: the image mask() returns has exactly the four channels R, G, B and
\* the resampled mask, in that order, for an image of 3 channels and for an
\* image that already has an alpha channel.
C5_AlphaReplaced ==
    \A c \in Calls :
        (op[c] = "mask" /\ pc[c] = "done") =>
            /\ OutChannels(local[c].ret[1]) = <<"R", "G", "B", "mask">>
            /\ local[c].ret[1].join[1].buffer.of.data = local[c].uint8Data[1]

\* C6: the handle the caller passed to mask() or normalize() is as the
\* caller made it: no resize, raw, alpha or colourspace option is set on it.
C6_CallerImageUnchanged ==
    \A c \in Calls : handle[c] = Fresh(handle[c].img)

\* what mask() has done when it awaits toBuffer, when it calls session.run,
\* when it awaits the alpha buffer, and when it returns
LogEntered == <<"metadata", "clone", "resize", "raw">>

LogEncoded == LogEntered \o <<"toBuffer", "encode">>

LogRun == LogEncoded \o <<"run">>

LogDecoded == LogRun \o <<"results", "decode", "alpha resize">>

LogReturned == LogDecoded \o <<"alpha buffer", "clone", "compose">>

\* what mask() has done when the promise awaited at step has rejected
LogRejected(step) ==
    (CASE step = "metadata" -> <<>>
       [] step = "toBuffer" -> LogEntered
       [] step = "run" -> LogRun
       [] step = "alpha buffer" -> LogDecoded) \o <<step \o " rejected">>

\* C9: mask() invokes session.run at most once, and only after it read the
\* original dimensions and built the input tensor; when the metadata read,
\* the encoding, the inference call or the mask resampling fails, mask()
\* rejects with that error, has performed no step after the failing one and
\* returns no image; it returns an image only when every step completed.
C9_NoRetryNoPartial ==
    \A c \in Calls :
        op[c] = "mask" =>
            /\ runs[c] <= 1
            /\ runs[c] = 1 =>
                   /\ local[c].originalWidth = handle[c].img.width
                   /\ Len(local[c].inputTensor) = 1
                   /\ SubSeq(log[c], 1, Len(LogRun)) = LogRun
            /\ pc[c] = "rejected" =>
                   /\ Len(local[c].err) = 1
                   /\ log[c] = LogRejected(local[c].err[1])
                   /\ runs[c] = (IF local[c].err[1] \in {"run", "alpha buffer"} THEN 1 ELSE 0)
                   /\ local[c].ret = <<>>
            /\ pc[c] # "rejected" => local[c].err = <<>>
            /\ local[c].ret # <<>> =>
                   /\ pc[c] = "done"
                   /\ log[c] = LogReturned
                   /\ runs[c] = 1

\* C9's case: session.run was invoked once and rejected, and so did mask()
C9_Witness ==
    \E c \in Calls :
        /\ op[c] = "mask" /\ pc[c] = "rejected"
        /\ local[c].err = <<"run">>
        /\ runs[c] = 1

\* what a mask() call on call c's image gives when it runs alone on the
\* instance as constructed
AloneTensor(c) ==
    LET image == NormalizeEntry(SharpClone(handle[c]), ctor.session)
    IN  NormalizeTensor(SharpData(image), SharpInfo(image), ctor.mean, ctor.std)

AloneResults(c) ==
    Infer(ctor.session, [name |-> ctor.session.inputNames[1], tensor |-> AloneTensor(c)])

AloneMask(c) ==
    DecodeMask(AloneResults(c).data, AloneResults(c).dims[3], AloneResults(c).dims[4])

AloneSize(c) == <<handle[c].img.width, handle[c].img.height>>

AloneImage(c) ==
    Compose(handle[c],
            AlphaBuffer(AloneMask(c), AloneResults(c).dims[4], AloneResults(c).dims[3],
                        AloneSize(c)),
            AloneSize(c))

\* C10: mask() never writes the session, mean and std the constructor set,
\* and under every interleaving of concurrent mask() calls on one instance
\* the tensor a call passes to session.run, its mask bytes and the image it
\* returns are those of the same call running alone.
C10_Stateless ==
    /\ this = ctor
    /\ \A c \in Calls :
           /\ pc[c] \in {"run", "alpha", "done"} =>
                  /\ Len(local[c].request) = 1
                  /\ local[c].request[1].tensor = AloneTensor(c)
           /\ pc[c] \in {"alpha", "done"} =>
                  /\ Len(local[c].uint8Data) = 1
                  /\ local[c].uint8Data[1] = AloneMask(c)
           /\ pc[c] = "done" =>
                  /\ Len(local[c].ret) = 1
                  /\ local[c].ret[1] = AloneImage(c)
                  /\ OutWidth(local[c].ret[1]) = handle[c].img.width
                  /\ OutHeight(local[c].ret[1]) = handle[c].img.height

\* C10's case: two calls on different images are both past session.run, one
\* returned and one still awaiting its alpha buffer, with different tensors
C10_Witness ==
    /\ Calls = {1, 2}
    /\ pc[1] = "done" /\ pc[2] = "alpha"
    /\ handle[1].img # handle[2].img
    /\ local[1].request[1].tensor # local[2].request[1].tensor
    /\ local[1].uint8Data # local[2].uint8Data

====
